---- MODULE Spec2Model ----
(***************************************************************************)
(* The HSA ring-buffer queue of hsa-rt/src/queue.rs: producers enqueue     *)
(* kernel-dispatch and barrier packets with RingQueue::try_enqueue_packet  *)
(* (try_enqueue_kernel_dispatch, try_enqueue_barrier_and / _or), and the   *)
(* soft-queue consumer drains them with SoftQueue::process.  The accesses  *)
(* to the shared queue memory (write index, read index, doorbell, first    *)
(* word and body of a slot, signals) are separate steps.                   *)
(***************************************************************************)
EXTENDS Integers, Sequences, FiniteSets, TLC

VARIABLES
  ctor,          \* the constructor that created the queue
  queue_type,    \* the hsa_queue_type_t the queue was created with
  kind,          \* producer kind of the handle: "Single" or "Multi"
  packet_count,  \* (*queue).size: the ring capacity, a power of two
  write_index,   \* the queue's write index
  read_index,    \* the queue's read index
  doorbell,      \* value of the doorbell signal
  packets,       \* the ring: slot -> packet memory
  signals,       \* signal handle -> value
  pc,            \* producer -> position inside its try_enqueue call
  w,             \* producer -> local write_index (result of the fetch-add)
  arg,           \* producer -> descriptor of its current / most recent call
  result,        \* producer -> return value of its most recent call
  wrote,         \* producer -> the current call has stored to a slot or the doorbell
  cpc,           \* position of the consumer inside process
  c_read_index,  \* process's local read_index
  ret,           \* what the handler returned for the packet being retired
  c_rest,        \* process's local rest: the packet.type_ it read back
  loop_result,   \* what the last call of process returned to its caller
  fate,          \* history: write index -> what became of it
  submitted,     \* history: write index -> descriptor of the call that took it
  handled,       \* history: the handler invocations, in order
  calls,         \* number of enqueue calls that went on to reserve an index
  wpc,           \* position of the codegen worker inside thread
  context,       \* worker: self.context, "Weak" or "Strong"
  context_refs,  \* who holds a strong reference to the Context
  first_msg,     \* worker: no message has been received yet
  recv_msg,      \* worker: the message rx.recv() handed to the next iteration
  accels,        \* worker: self.accels, the registered accelerator handles
  accel_alive,   \* the accelerators that are still alive
  chan,          \* the messages sent to the worker and not yet received
  senders,       \* some Sender of the worker's channel is still alive
  sent,          \* number of messages sent so far
  cache,         \* worker: self.cache, the descriptors with a cached result
  wmsg,          \* worker: the Codegen message being handled
  wresult,       \* worker: what codegen_kernel returned for it
  replies,       \* history: request -> results sent on its reply channel
  compiled,      \* history: request -> calls of codegen_kernel for it
  hits           \* history: the requests whose descriptor was in the cache

vars == <<ctor, queue_type, kind, packet_count, write_index, read_index, doorbell, packets,
          signals, pc, w, arg, result, wrote, cpc, c_read_index, ret, c_rest,
          loop_result, fate, submitted, handled, calls, wpc, context,
          context_refs, first_msg, recv_msg, accels, accel_alive, chan,
          senders, sent, cache, wmsg, wresult, replies, compiled, hits>>

\* the state of the codegen worker and of its environment
workerVars == <<wpc, context, context_refs, first_msg, recv_msg, accels,
                accel_alive, chan, senders, sent, cache, wmsg, wresult,
                replies, compiled, hits>>
\* the state of the queue, its producers and its consumer
ringVars == <<ctor, queue_type, kind, packet_count, write_index, read_index,
              doorbell, packets, signals, pc, w, arg, result, wrote, cpc,
              c_read_index, ret, c_rest, loop_result, fate, submitted,
              handled, calls>>

queueVars == <<ctor, queue_type, kind, packet_count>>
producerVars == <<pc, w, arg, result, wrote, calls>>
consumerVars == <<cpc, c_read_index, ret, c_rest, loop_result, handled>>

(***************************************************************************)
(* Bounds of the model.                                                    *)
(***************************************************************************)
\* capacities 2^0 .. 2^MaxCapLog
MaxCapLog == 1
\* enqueue calls that reserve a write index
MaxCalls == 4
\* the same, on the queues of every constructor
MaxCreateCalls == 2
\* the same, where one producer submits a grid of every shape
MaxGridCalls == 2
\* the same, where one producer submits every descriptor
MaxDispatchCalls == 2
\* the same, for the fair behaviours
MaxLiveCalls == 3
\* the same, for the fair behaviours of a single producer
MaxSingleLiveCalls == 4
\* the same, where barriers wait for signals other threads decrement
MaxGateCalls == 2
\* the same, where one producer submits every barrier
MaxBarrierCalls == 2
\* the same, where the handler may return Exit
MaxExitCalls == 3
\* the value the dependency signals start from
MaxSignal == 1
\* messages sent to the codegen worker
MaxMessages == 3

Producers == {"p1", "p2"}

(***************************************************************************)
(* Values of the HSA runtime interface (hsa.h) the code refers to through  *)
(* ffi::.                                                                  *)
(***************************************************************************)
HSA_PACKET_TYPE_INVALID == 1
HSA_PACKET_TYPE_KERNEL_DISPATCH == 2
HSA_PACKET_TYPE_BARRIER_AND == 3
HSA_PACKET_TYPE_AGENT_DISPATCH == 4
HSA_PACKET_TYPE_BARRIER_OR == 5
HSA_PACKET_HEADER_TYPE == 0
HSA_PACKET_HEADER_BARRIER == 8
HSA_PACKET_HEADER_SCACQUIRE_FENCE_SCOPE == 9
HSA_PACKET_HEADER_SCRELEASE_FENCE_SCOPE == 11
HSA_PACKET_HEADER_WIDTH_TYPE == 8
HSA_PACKET_HEADER_WIDTH_BARRIER == 1
HSA_PACKET_HEADER_WIDTH_SCACQUIRE_FENCE_SCOPE == 2
HSA_PACKET_HEADER_WIDTH_SCRELEASE_FENCE_SCOPE == 2
HSA_FENCE_SCOPE_NONE == 0
HSA_FENCE_SCOPE_AGENT == 1
HSA_FENCE_SCOPE_SYSTEM == 2
HSA_KERNEL_DISPATCH_PACKET_SETUP_DIMENSIONS == 0
HSA_QUEUE_TYPE_MULTI == 0
HSA_QUEUE_TYPE_SINGLE == 1

\* the default (null) signal handle
NullSignal == 0
Signals == {1, 2}
\* the length of packet.dep_signal in a barrier packet
MaxDeps == 5

Pow2(n) == 2 ^ n
U16 == Pow2(16)

Bit(v, k) == (v \div Pow2(k)) % 2

\* the bitwise OR of the words in vals, from bit k upwards (words below 2^31)
RECURSIVE OrBits(_, _)
OrBits(vals, k) ==
  IF k = 31 THEN 0
  ELSE (IF \E i \in DOMAIN vals : Bit(vals[i], k) = 1 THEN Pow2(k) ELSE 0)
       + OrBits(vals, k + 1)

\* u16 << shift, truncated to 16 bits
Shl16(v, shift) == (v * Pow2(shift)) % U16

scope_to_enum(scope) ==
  CASE scope = "None" -> HSA_FENCE_SCOPE_NONE
    [] scope = "System" -> HSA_FENCE_SCOPE_SYSTEM
    [] scope = "Agent" -> HSA_FENCE_SCOPE_AGENT

\* the type packed above the other fields instead of at HSA_PACKET_HEADER_TYPE
header_bits_type_high(ty, scaquire, screlease, ordered) ==
  OrBits(<<Shl16(ty, HSA_PACKET_HEADER_WIDTH_TYPE),
           Shl16(scope_to_enum(scaquire),
                 HSA_PACKET_HEADER_SCACQUIRE_FENCE_SCOPE),
           Shl16(scope_to_enum(screlease),
                 HSA_PACKET_HEADER_SCRELEASE_FENCE_SCOPE),
           IF ordered THEN Shl16(1, HSA_PACKET_HEADER_BARRIER) ELSE 0>>, 0)

\* header = ty << TYPE, then |= of the two scopes and, if ordered, of the
\* barrier bit
header_bits(ty, scaquire, screlease, ordered) ==
  OrBits(<<Shl16(ty, HSA_PACKET_HEADER_TYPE),
           Shl16(scope_to_enum(scaquire),
                 HSA_PACKET_HEADER_SCACQUIRE_FENCE_SCOPE),
           Shl16(scope_to_enum(screlease),
                 HSA_PACKET_HEADER_SCRELEASE_FENCE_SCOPE),
           IF ordered THEN Shl16(1, HSA_PACKET_HEADER_BARRIER) ELSE 0>>, 0)

PacketTypes ==
  {HSA_PACKET_TYPE_INVALID, HSA_PACKET_TYPE_KERNEL_DISPATCH,
   HSA_PACKET_TYPE_BARRIER_AND, HSA_PACKET_TYPE_AGENT_DISPATCH,
   HSA_PACKET_TYPE_BARRIER_OR}
FenceScopes == {"None", "Agent", "System"}

\* header_bits, tabulated once for every argument
HeaderTable ==
  [ty \in PacketTypes, acq \in FenceScopes, rel \in FenceScopes,
   ordered \in BOOLEAN |-> header_bits(ty, acq, rel, ordered)]

header(ty, scaquire, screlease, ordered) ==
  HeaderTable[ty, scaquire, screlease, ordered]

\* the first 32-bit word of a packet after packet_store_rel(packet, hdr, rest):
\* (header as u32) | (rest as u32) << 16, two fields that do not overlap
packet_store_rel(hdr, rest) == (hdr % U16) + (rest % U16) * U16

\* the fields the consumer and the properties read back from a slot's first word
HeaderOf(word) == word % U16
TypeField(word) == word \div U16
\* the header field of `width` bits at bit `shift`
HeaderField(word, shift, width) ==
  (HeaderOf(word) \div Pow2(shift)) % Pow2(width)
PacketType(word) ==
  (HeaderOf(word) \div Pow2(HSA_PACKET_HEADER_TYPE))
    % Pow2(HSA_PACKET_HEADER_WIDTH_TYPE)

(***************************************************************************)
(* Dispatch descriptors.                                                   *)
(***************************************************************************)
Dispatch(wg, grid, cs) ==
  [workgroup_size |-> wg, grid_size |-> grid,
   private_segment_size |-> 0, group_segment_size |-> 0,
   ordered |-> TRUE, scaquire_scope |-> "System", screlease_scope |-> "System",
   kernel_object |-> 7, kernel_args |-> 9, completion_signal |-> cs]

NoDispatch == Dispatch(<<1, 1, 1>>, <<1, 1, 1>>, NullSignal)

\* the descriptors producers submit in the queue protocol
Descriptors ==
  { Dispatch(<<8, 1, 1>>, <<256, 1, 1>>, 1),
    Dispatch(<<8, 1, 1>>, <<0, 1, 1>>, NullSignal) }

Dims == {0, 1}
Triples == Dims \X Dims \X Dims
\* every combination of zero and non-zero dimensions, and those of Descriptors
AllDescriptors ==
  { Dispatch(wg, grid, NullSignal) : wg \in Triples, grid \in Triples }
    \cup Descriptors

\* the grids of every shape: each dimension 1 or more than 1
GridDims == {1, 2}
GridDescriptors ==
  { Dispatch(<<1, 1, 1>>, grid, NullSignal) :
      grid \in GridDims \X GridDims \X GridDims }

\* check with the two tests in the other order
check_grid_first(d) ==
  LET wg == d.workgroup_size
      grid == d.grid_size
  IN IF grid[1] = 0 \/ grid[2] = 0 \/ grid[3] = 0 THEN "GridDimSize"
     ELSE IF wg[1] = 0 \/ wg[2] = 0 \/ wg[3] = 0 THEN "WorkgroupDimSize"
     ELSE "Ok"

\* DispatchPacket::check
check(d) ==
  LET wg == d.workgroup_size
      grid == d.grid_size
  IN IF wg[1] = 0 \/ wg[2] = 0 \/ wg[3] = 0 THEN "WorkgroupDimSize"
     ELSE IF grid[1] = 0 \/ grid[2] = 0 \/ grid[3] = 0 THEN "GridDimSize"
     ELSE "Ok"

\* the dimensionality as the number of dimensions that are not 1
grid_dims_count(grid) == Cardinality({ k \in 1 .. 3 : grid[k] # 1 })

\* the dimensionality DispatchPacket::initialize_packet returns
grid_dims(grid) ==
  IF grid[1] = 1 /\ grid[2] = 1 /\ grid[3] = 1 THEN 0
  ELSE IF grid[2] = 1 /\ grid[3] = 1 THEN 1
  ELSE IF grid[3] = 1 THEN 2
  ELSE 3

\* the body fields DispatchPacket::initialize_packet writes
initialize_packet(d) ==
  [workgroup_size |-> d.workgroup_size, grid_size |-> d.grid_size,
   private_segment_size |-> d.private_segment_size,
   group_segment_size |-> d.group_segment_size,
   kernel_object |-> d.kernel_object,
   kernarg_address |-> d.kernel_args]

EmptyBody ==
  [workgroup_size |-> <<0, 0, 0>>, grid_size |-> <<0, 0, 0>>,
   private_segment_size |-> 0, group_segment_size |-> 0,
   kernel_object |-> 0, kernarg_address |-> 0]

\* The slot is read through the kernel-dispatch view (body) by the dispatch
\* writer and through the barrier view (dep_signal) by the barrier writers; the
\* first word and completion_signal are at the same place in both views.
EmptyDeps == [k \in 1 .. MaxDeps |-> NullSignal]

\* a slot as hsa_queue_create leaves it: header Invalid, everything else zero
EmptyPacket ==
  [word |-> header(HSA_PACKET_TYPE_INVALID, "None", "None", FALSE),
   body |-> EmptyBody, dep_signal |-> EmptyDeps,
   completion_signal |-> NullSignal]

(***************************************************************************)
(* Barrier calls: the packet type, the dependency iterator (what is left   *)
(* of it) and the optional completion signal, None being NullSignal.       *)
(***************************************************************************)
Barrier(ty, deps, completion) ==
  [ty |-> ty, deps |-> deps, completion |-> completion]

IsBarrier(a) == "deps" \in DOMAIN a

\* the dependency sequences callers pass: none, two, five, six signals
BarrierDeps ==
  { <<>>, <<1, 2>>, <<2, 1, 2, 1, 2>>, <<1, 2, 1, 2, 1, 2>> }

BarrierTypes == {HSA_PACKET_TYPE_BARRIER_AND, HSA_PACKET_TYPE_BARRIER_OR}

AllBarriers ==
  { Barrier(ty, deps, completion) :
      ty \in BarrierTypes, deps \in BarrierDeps,
      completion \in {NullSignal, 1} }

\* the barriers that wait for both signals
GateBarriers ==
  { Barrier(ty, <<1, 2>>, NullSignal) : ty \in BarrierTypes }

Indices == 0 .. (MaxCalls - 1)
Slot(index) == index % packet_count

TypeOK ==
  /\ kind \in {"Single", "Multi"}
  /\ packet_count \in { Pow2(k) : k \in 0 .. MaxCapLog }
  /\ write_index \in 0 .. MaxCalls
  /\ read_index \in 0 .. MaxCalls
  /\ doorbell \in -1 .. MaxCalls
  /\ DOMAIN packets = 0 .. (packet_count - 1)
  /\ DOMAIN signals = Signals
  /\ pc \in [Producers -> {"idle", "check", "reserve", "load", "stamp",
                           "body", "publish", "doorbell", "panicked"}]
  /\ result \in [Producers -> {"none", "Ok", "Full", "WorkgroupDimSize",
                               "GridDimSize"}]
  /\ cpc \in {"start", "wait", "handler", "complete", "type", "invalidate",
              "advance", "returned"}

(***************************************************************************)
(* The codegen worker of runtime-core/src/codegen/worker/mod.rs: the       *)
(* messages it receives and the state WorkerTranslatorData::new spawns the *)
(* thread in.                                                              *)
(***************************************************************************)
Accels == {"a1", "a2"}
KernelDescs == {"k1"}
Requests == 1 .. MaxMessages

AddAccel(a) == [type |-> "AddAccel", accel |-> a, desc |-> "-", ret |-> 0]
StartHostQuery == [type |-> "StartHostQuery", accel |-> "-", desc |-> "-", ret |-> 0]
Codegen(desc, r) == [type |-> "Codegen", accel |-> "-", desc |-> desc, ret |-> r]
\* recv_msg = None
NoMessage == [type |-> "None", accel |-> "-", desc |-> "-", ret |-> 0]

\* context_refs names the holders of a strong reference: "owner", the owner of
\* the Context; "thread", the closure the thread runs (its `context`, alive
\* until the thread returns); "worker", self.context while it is Strong.
WorkerSpawned ==
  /\ wpc = "upgrade"
  /\ context = "Weak"
  /\ context_refs = {"owner", "thread"}
  /\ first_msg = TRUE
  /\ recv_msg = NoMessage
  /\ accels = {}
  /\ accel_alive = Accels
  /\ chan = <<>>
  /\ senders = TRUE
  /\ sent = 0
  /\ cache = {}
  /\ wmsg = NoMessage
  /\ wresult = "none"
  /\ replies = [r \in Requests |-> 0]
  /\ compiled = [r \in Requests |-> 0]
  /\ hits = {}

(***************************************************************************)
(* Init: a freshly created queue (indices 0, all headers Invalid) whose    *)
(* doorbell signal was created below the read index.                       *)
(***************************************************************************)
\* the queue memory, the callers and the consumer before the first call
QueueState(sig0) ==
  /\ packet_count \in { Pow2(k) : k \in 0 .. MaxCapLog }
  /\ write_index = 0
  /\ read_index = 0
  /\ doorbell = -1
  /\ packets = [s \in 0 .. (packet_count - 1) |-> EmptyPacket]
  /\ signals = [s \in Signals |-> sig0]
  /\ pc = [p \in Producers |-> "idle"]
  /\ w = [p \in Producers |-> 0]
  /\ arg = [p \in Producers |-> NoDispatch]
  /\ result = [p \in Producers |-> "none"]
  /\ wrote = [p \in Producers |-> FALSE]
  /\ cpc = "start"
  /\ c_read_index = 0
  /\ ret = "Continue"
  /\ c_rest = 0
  /\ loop_result = "none"
  /\ fate = [i \in Indices |-> "free"]
  /\ submitted = [i \in Indices |-> NoDispatch]
  /\ handled = <<>>
  /\ calls = 0

\* the hsa_queue_type_t ApiContext::new_soft passes for a QueueType
new_soft(ty) ==
  CASE ty = "Single" -> HSA_QUEUE_TYPE_SINGLE
    [] ty = "Multi" -> HSA_QUEUE_TYPE_MULTI

\* a soft queue of either QueueType
QueueCreated(sig0) ==
  /\ kind \in {"Single", "Multi"}
  /\ ctor = "new_soft"
  /\ queue_type = new_soft(kind)
  /\ QueueState(sig0)
  /\ WorkerSpawned

Init == QueueCreated(MaxCalls)

(***************************************************************************)
(* Producers: RingQueue::try_enqueue_kernel_dispatch and, inside it,       *)
(* RingQueue::try_enqueue_packet.                                          *)
(***************************************************************************)
\* a single-producer queue shared between threads as if it were Sync
CanCallUnsync(p) == TRUE

\* SingleQueueType is !Sync: calls on a single-producer queue never overlap
CanCall(p) ==
  kind = "Multi" \/ \A q \in Producers \ {p} : pc[q] = "idle"

\* a producer calls try_enqueue_kernel_dispatch(d)
try_enqueue_kernel_dispatch(p, d) ==
  /\ pc[p] = "idle"
  /\ CanCall(p)
  /\ calls' = IF check(d) = "Ok" THEN calls + 1 ELSE calls
  /\ pc' = [pc EXCEPT ![p] = "check"]
  /\ arg' = [arg EXCEPT ![p] = d]
  /\ result' = [result EXCEPT ![p] = "none"]
  /\ wrote' = [wrote EXCEPT ![p] = FALSE]
  /\ UNCHANGED <<workerVars, queueVars, write_index, read_index, doorbell, packets,
                 signals, w, consumerVars, fate, submitted>>

\* the parameters checked only after the write index was taken
dispatch_check_late(p) ==
  /\ pc[p] = "check"
  /\ IF check(arg[p]) = "Ok"
       THEN /\ pc' = [pc EXCEPT ![p] = "reserve"]
            /\ UNCHANGED <<result, write_index>>
       ELSE /\ pc' = [pc EXCEPT ![p] = "idle"]
            /\ result' = [result EXCEPT ![p] = check(arg[p])]
            /\ write_index' = write_index + 1
  /\ UNCHANGED <<workerVars, queueVars, read_index, doorbell, packets,
                 signals, w, arg, wrote, calls, consumerVars, fate, submitted>>

\* dispatch.check()?: the parameters are checked before a write index is taken
dispatch_check(p) ==
  /\ pc[p] = "check"
  /\ IF check(arg[p]) = "Ok"
       THEN /\ pc' = [pc EXCEPT ![p] = "reserve"]
            /\ UNCHANGED result
       ELSE /\ pc' = [pc EXCEPT ![p] = "idle"]
            /\ result' = [result EXCEPT ![p] = check(arg[p])]
  /\ UNCHANGED <<workerVars, queueVars, write_index, read_index, doorbell, packets,
                 signals, w, arg, wrote, calls, consumerVars, fate, submitted>>

\* the write index loaded but not advanced
load_write_index(p) ==
  /\ pc[p] = "reserve"
  /\ w' = [w EXCEPT ![p] = write_index]
  /\ fate' = [fate EXCEPT ![write_index] = "reserved"]
  /\ submitted' = [submitted EXCEPT ![write_index] = arg[p]]
  /\ pc' = [pc EXCEPT ![p] = "load"]
  /\ UNCHANGED <<workerVars, queueVars, write_index, read_index, doorbell, packets,
                 signals, arg, result, wrote, calls, consumerVars>>

\* let write_index = sys.add_write_index_screlease(1): an atomic fetch-add
add_write_index_screlease(p) ==
  /\ pc[p] = "reserve"
  /\ w' = [w EXCEPT ![p] = write_index]
  /\ write_index' = write_index + 1
  /\ fate' = [fate EXCEPT ![write_index] = "reserved"]
  /\ submitted' = [submitted EXCEPT ![write_index] = arg[p]]
  /\ pc' = [pc EXCEPT ![p] = "load"]
  /\ UNCHANGED <<workerVars, queueVars, read_index, doorbell, packets, signals, arg,
                 result, wrote, calls, consumerVars>>

\* the Full check off by one
IsFullStrict(wi, ri) == wi - ri > packet_count

\* write_index - read_index >= packet_count as u64, for write_index >= read_index
IsFull(wi, ri) == wi - ri >= packet_count

\* Full returned after the slot's header was already stamped
ReturnFullStamped(p) ==
  /\ pc' = [pc EXCEPT ![p] = "idle"]
  /\ result' = [result EXCEPT ![p] = "Full"]
  /\ fate' = [fate EXCEPT ![w[p]] = "full"]
  /\ w' = [w EXCEPT ![p] = 0]
  /\ packets' = [packets EXCEPT ![Slot(w[p])].word =
       packet_store_rel(header(HSA_PACKET_TYPE_INVALID, "None", "None", TRUE), 0)]
  /\ wrote' = [wrote EXCEPT ![p] = TRUE]
  /\ UNCHANGED write_index

\* Full returned after giving the reserved index back
ReturnFullRollback(p) ==
  /\ pc' = [pc EXCEPT ![p] = "idle"]
  /\ result' = [result EXCEPT ![p] = "Full"]
  /\ fate' = [fate EXCEPT ![w[p]] = "full"]
  /\ w' = [w EXCEPT ![p] = 0]
  /\ write_index' = write_index - 1
  /\ UNCHANGED <<packets, wrote>>

\* return Err(QueueError::Full): the reserved index is left behind
ReturnFull(p) ==
  /\ pc' = [pc EXCEPT ![p] = "idle"]
  /\ result' = [result EXCEPT ![p] = "Full"]
  /\ fate' = [fate EXCEPT ![w[p]] = "full"]
  /\ w' = [w EXCEPT ![p] = 0]
  /\ UNCHANGED <<write_index, packets, wrote>>

\* the first n items of the iterator, then the default signal
TakeDeps(deps) ==
  [k \in 1 .. MaxDeps |-> IF k <= Len(deps) THEN deps[k] ELSE NullSignal]

\* the iterator after MaxDeps calls of next()
DropDeps(deps) == SubSeq(deps, MaxDeps + 1, Len(deps))

\* the dependency loop of a barrier run before the Full check
load_read_index_after_deps(p) ==
  /\ pc[p] = "load"
  /\ IF IsFull(w[p], read_index)
       THEN /\ pc' = [pc EXCEPT ![p] = "idle"]
            /\ result' = [result EXCEPT ![p] = "Full"]
            /\ fate' = [fate EXCEPT ![w[p]] = "full"]
            /\ w' = [w EXCEPT ![p] = 0]
            /\ IF IsBarrier(arg[p])
                 THEN /\ packets' = [packets EXCEPT
                           ![Slot(w[p])].dep_signal = TakeDeps(arg[p].deps)]
                      /\ arg' = [arg EXCEPT ![p].deps = DropDeps(@)]
                      /\ wrote' = [wrote EXCEPT ![p] = TRUE]
                 ELSE UNCHANGED <<packets, arg, wrote>>
       ELSE /\ pc' = [pc EXCEPT ![p] = "stamp"]
            /\ fate' = [fate EXCEPT ![w[p]] = "passed"]
            /\ UNCHANGED <<result, w, packets, arg, wrote>>
  /\ UNCHANGED <<workerVars, queueVars, write_index, read_index, doorbell, signals, calls,
                 consumerVars, submitted>>

\* let read_index = sys.load_read_index_scacquire() and the Full check.  When
\* the loaded read index is above the reserved index the u64 subtraction
\* overflows: it panics in a build with overflow checks and wraps to a value
\* >= packet_count (Full) in one without.
load_read_index_scacquire(p) ==
  /\ pc[p] = "load"
  /\ \/ /\ w[p] < read_index
        /\ \/ ReturnFull(p)
           \/ /\ pc' = [pc EXCEPT ![p] = "panicked"]
              /\ fate' = [fate EXCEPT ![w[p]] = "panicked"]
              /\ w' = [w EXCEPT ![p] = 0]
              /\ UNCHANGED <<result, write_index, packets, wrote>>
     \/ /\ w[p] >= read_index
        /\ IsFull(w[p], read_index)
        /\ ReturnFull(p)
     \/ /\ w[p] >= read_index
        /\ ~IsFull(w[p], read_index)
        /\ pc' = [pc EXCEPT ![p] = "stamp"]
        /\ fate' = [fate EXCEPT ![w[p]] = "passed"]
        /\ UNCHANGED <<result, w, write_index, packets, wrote>>
  /\ UNCHANGED <<workerVars, queueVars, read_index, doorbell, signals, arg, calls,
                 consumerVars, submitted>>

\* packet_store_rel(packet, invalid_ty, 0) at the start of the body writer
stamp_invalid(p) ==
  /\ pc[p] = "stamp"
  /\ ~IsBarrier(arg[p])
  /\ packets' = [packets EXCEPT ![Slot(w[p])].word =
       packet_store_rel(header(HSA_PACKET_TYPE_INVALID, "None", "None", TRUE), 0)]
  /\ wrote' = [wrote EXCEPT ![p] = TRUE]
  /\ pc' = [pc EXCEPT ![p] = "body"]
  /\ UNCHANGED <<workerVars, queueVars, write_index, read_index, doorbell, signals, w,
                 arg, result, calls, consumerVars, fate, submitted>>

\* the completion signal written only when the descriptor has one
write_body_some_signal(p) ==
  /\ pc[p] = "body"
  /\ ~IsBarrier(arg[p])
  /\ packets' = [packets EXCEPT
       ![Slot(w[p])].body = initialize_packet(arg[p]),
       ![Slot(w[p])].completion_signal =
          IF arg[p].completion_signal # NullSignal
            THEN arg[p].completion_signal ELSE @]
  /\ wrote' = [wrote EXCEPT ![p] = TRUE]
  /\ pc' = [pc EXCEPT ![p] = "publish"]
  /\ UNCHANGED <<workerVars, queueVars, write_index, read_index, doorbell, signals, w,
                 arg, result, calls, consumerVars, fate, submitted>>

\* dispatch.initialize_packet(packet): the body fields and the completion signal
write_body(p) ==
  /\ pc[p] = "body"
  /\ ~IsBarrier(arg[p])
  /\ packets' = [packets EXCEPT
       ![Slot(w[p])].body = initialize_packet(arg[p]),
       ![Slot(w[p])].completion_signal = arg[p].completion_signal]
  /\ wrote' = [wrote EXCEPT ![p] = TRUE]
  /\ pc' = [pc EXCEPT ![p] = "publish"]
  /\ UNCHANGED <<workerVars, queueVars, write_index, read_index, doorbell, signals, w,
                 arg, result, calls, consumerVars, fate, submitted>>

\* packet_store_rel(packet, ty, setup): the publish store
publish(p) ==
  /\ pc[p] = "publish"
  /\ ~IsBarrier(arg[p])
  /\ packets' = [packets EXCEPT ![Slot(w[p])].word =
       packet_store_rel(
         header(HSA_PACKET_TYPE_KERNEL_DISPATCH, arg[p].scaquire_scope,
                arg[p].screlease_scope, arg[p].ordered),
         Shl16(grid_dims(arg[p].grid_size),
               HSA_KERNEL_DISPATCH_PACKET_SETUP_DIMENSIONS))]
  /\ wrote' = [wrote EXCEPT ![p] = TRUE]
  /\ fate' = [fate EXCEPT ![w[p]] = "published"]
  /\ pc' = [pc EXCEPT ![p] = "doorbell"]
  /\ UNCHANGED <<workerVars, queueVars, write_index, read_index, doorbell, signals, w,
                 arg, result, calls, consumerVars, submitted>>

(***************************************************************************)
(* RingQueue::try_enqueue_barrier_and / try_enqueue_barrier_or: the same   *)
(* try_enqueue_packet with the barrier body writer.                        *)
(***************************************************************************)
\* the ordered argument of both headers: completion.is_none()
barrier_ordered(b) == b.completion = NullSignal

\* a producer calls try_enqueue_barrier_and / _or: nothing is checked before
\* the write index is taken
try_enqueue_barrier(p, b) ==
  /\ pc[p] = "idle"
  /\ CanCall(p)
  /\ calls' = calls + 1
  /\ pc' = [pc EXCEPT ![p] = "reserve"]
  /\ arg' = [arg EXCEPT ![p] = b]
  /\ result' = [result EXCEPT ![p] = "none"]
  /\ wrote' = [wrote EXCEPT ![p] = FALSE]
  /\ UNCHANGED <<workerVars, queueVars, write_index, read_index, doorbell, packets,
                 signals, w, consumerVars, fate, submitted>>

try_enqueue_barrier_and(p, deps, completion) ==
  try_enqueue_barrier(p, Barrier(HSA_PACKET_TYPE_BARRIER_AND, deps, completion))

try_enqueue_barrier_or(p, deps, completion) ==
  try_enqueue_barrier(p, Barrier(HSA_PACKET_TYPE_BARRIER_OR, deps, completion))

\* packet_store_rel(packet, invalid_ty, 0) at the start of the barrier writer
barrier_stamp_invalid(p) ==
  /\ pc[p] = "stamp"
  /\ IsBarrier(arg[p])
  /\ packets' = [packets EXCEPT ![Slot(w[p])].word =
       packet_store_rel(
         header(HSA_PACKET_TYPE_INVALID, "None", "None",
                barrier_ordered(arg[p])), 0)]
  /\ wrote' = [wrote EXCEPT ![p] = TRUE]
  /\ pc' = [pc EXCEPT ![p] = "body"]
  /\ UNCHANGED <<workerVars, queueVars, write_index, read_index, doorbell, signals, w,
                 arg, result, calls, consumerVars, fate, submitted>>

\* the dependency loop stopping at the end of the iterator
TakeDepsUntilNone(deps, old) ==
  [k \in 1 .. MaxDeps |-> IF k <= Len(deps) THEN deps[k] ELSE old[k]]

\* for dst_dep in packet.dep_signal.iter_mut():
\*   *dst_dep = deps.next().map(|d| d.0).unwrap_or_default()
write_deps(deps, old) == TakeDeps(deps)

\* if let Some(signal) = completion { packet.completion_signal = signal.0 },
\* then the dependency loop
barrier_write_body(p) ==
  /\ pc[p] = "body"
  /\ IsBarrier(arg[p])
  /\ packets' = [packets EXCEPT
       ![Slot(w[p])].completion_signal =
          IF arg[p].completion # NullSignal THEN arg[p].completion ELSE @,
       ![Slot(w[p])].dep_signal = write_deps(arg[p].deps, @)]
  /\ arg' = [arg EXCEPT ![p].deps = DropDeps(@)]
  /\ wrote' = [wrote EXCEPT ![p] = TRUE]
  /\ pc' = [pc EXCEPT ![p] = "publish"]
  /\ UNCHANGED <<workerVars, queueVars, write_index, read_index, doorbell, signals, w,
                 result, calls, consumerVars, fate, submitted>>

\* packet_store_rel(packet, ty, 0): the publish store of a barrier
barrier_publish(p) ==
  /\ pc[p] = "publish"
  /\ IsBarrier(arg[p])
  /\ packets' = [packets EXCEPT ![Slot(w[p])].word =
       packet_store_rel(
         header(arg[p].ty, "None", "None", barrier_ordered(arg[p])), 0)]
  /\ wrote' = [wrote EXCEPT ![p] = TRUE]
  /\ fate' = [fate EXCEPT ![w[p]] = "published"]
  /\ pc' = [pc EXCEPT ![p] = "doorbell"]
  /\ UNCHANGED <<workerVars, queueVars, write_index, read_index, doorbell, signals, w,
                 arg, result, calls, consumerVars, submitted>>

\* the doorbell rung with the index after the one reserved
store_doorbell_next(p) ==
  /\ pc[p] = "doorbell"
  /\ doorbell' = w[p] + 1
  /\ wrote' = [wrote EXCEPT ![p] = TRUE]
  /\ result' = [result EXCEPT ![p] = "Ok"]
  /\ fate' = [fate EXCEPT ![w[p]] = "ok"]
  /\ pc' = [pc EXCEPT ![p] = "idle"]
  /\ w' = [w EXCEPT ![p] = 0]
  /\ UNCHANGED <<workerVars, queueVars, write_index, read_index, packets, signals,
                 arg, calls, consumerVars, submitted>>

\* self.doorbell_ref().store_screlease(write_index as i64); Ok(())
store_doorbell(p) ==
  /\ pc[p] = "doorbell"
  /\ doorbell' = w[p]
  /\ wrote' = [wrote EXCEPT ![p] = TRUE]
  /\ result' = [result EXCEPT ![p] = "Ok"]
  /\ fate' = [fate EXCEPT ![w[p]] = "ok"]
  /\ pc' = [pc EXCEPT ![p] = "idle"]
  /\ w' = [w EXCEPT ![p] = 0]
  /\ UNCHANGED <<workerVars, queueVars, write_index, read_index, packets, signals,
                 arg, calls, consumerVars, submitted>>

(***************************************************************************)
(* The consumer: SoftQueue::process.                                       *)
(***************************************************************************)
\* what the handler can return: Continue, or Exit(v) for a value v
HandlerResults == {"Continue", "Exit(a)", "Exit(b)"}
\* the v of Exit(v)
ExitValue(r) == CASE r = "Exit(a)" -> "a" [] r = "Exit(b)" -> "b"

\* every call of process starting again from index 0
process_start_zero ==
  /\ cpc \in {"start", "returned"}
  /\ c_read_index' = 0
  /\ cpc' = "wait"
  /\ UNCHANGED <<workerVars, queueVars, write_index, read_index, doorbell, packets,
                 signals, producerVars, ret, c_rest, loop_result, handled, fate,
                 submitted>>

\* let mut read_index = self.sys.load_read_index_scacquire(), on every call
process_start ==
  /\ cpc \in {"start", "returned"}
  /\ c_read_index' = read_index
  /\ cpc' = "wait"
  /\ UNCHANGED <<workerVars, queueVars, write_index, read_index, doorbell, packets,
                 signals, producerVars, ret, c_rest, loop_result, handled, fate,
                 submitted>>

\* the wait returning whatever the doorbell value is
process_wait_any ==
  /\ cpc = "wait"
  /\ cpc' = "handler"
  /\ UNCHANGED <<workerVars, queueVars, write_index, read_index, doorbell, packets,
                 signals, producerVars, c_read_index, ret, c_rest, loop_result,
                 handled, fate, submitted>>

\* the wait returning only for a doorbell value above read_index
process_wait_greater ==
  /\ cpc = "wait"
  /\ doorbell > c_read_index
  /\ cpc' = "handler"
  /\ UNCHANGED <<workerVars, queueVars, write_index, read_index, doorbell, packets,
                 signals, producerVars, c_read_index, ret, c_rest, loop_result,
                 handled, fate, submitted>>

\* doorbell.wait_scacquire(GreaterEqual, read_index, None, Blocked) returns a
\* value >= read_index
process_wait ==
  /\ cpc = "wait"
  /\ doorbell >= c_read_index
  /\ cpc' = "handler"
  /\ UNCHANGED <<workerVars, queueVars, write_index, read_index, doorbell, packets,
                 signals, producerVars, c_read_index, ret, c_rest, loop_result,
                 handled, fate, submitted>>

\* process returning as soon as the handler returned Exit
process_handler_exit_now(rv) ==
  /\ cpc = "handler"
  /\ handled' = Append(handled,
       [index |-> c_read_index,
        fate |-> fate[c_read_index],
        type |-> PacketType(packets[Slot(c_read_index)].word)])
  /\ ret' = rv
  /\ IF rv = "Continue"
       THEN cpc' = "complete" /\ UNCHANGED loop_result
       ELSE cpc' = "returned" /\ loop_result' = ExitValue(rv)
  /\ UNCHANGED <<workerVars, queueVars, write_index, read_index, doorbell, packets,
                 signals, producerVars, c_read_index, c_rest, fate, submitted>>

\* let ret = f(AgentPacket { sys: packet, .. }) on slot read_index & (size - 1)
process_handler(rv) ==
  /\ cpc = "handler"
  /\ handled' = Append(handled,
       [index |-> c_read_index,
        fate |-> fate[c_read_index],
        type |-> PacketType(packets[Slot(c_read_index)].word)])
  /\ ret' = rv
  /\ cpc' = "complete"
  /\ UNCHANGED <<workerVars, queueVars, write_index, read_index, doorbell, packets,
                 signals, producerVars, c_read_index, c_rest, loop_result, fate,
                 submitted>>

\* the completion signal decremented whether or not the handler has run
process_complete_twice ==
  /\ cpc = "complete"
  /\ LET cs == packets[Slot(c_read_index)].completion_signal
     IN signals' = IF cs # NullSignal
                     THEN [signals EXCEPT ![cs] = signals[cs] - 2]
                     ELSE signals
  /\ cpc' = "type"
  /\ UNCHANGED <<workerVars, queueVars, write_index, read_index, doorbell, packets,
                 producerVars, c_read_index, ret, c_rest, loop_result, handled,
                 fate, submitted>>

\* if packet.completion_signal != default: subtract_screlease(1)
process_complete ==
  /\ cpc = "complete"
  /\ LET cs == packets[Slot(c_read_index)].completion_signal
     IN signals' = IF cs # NullSignal
                     THEN [signals EXCEPT ![cs] = signals[cs] - 1]
                     ELSE signals
  /\ cpc' = "type"
  /\ UNCHANGED <<workerVars, queueVars, write_index, read_index, doorbell, packets,
                 producerVars, c_read_index, ret, c_rest, loop_result, handled,
                 fate, submitted>>

\* let rest = packet.type_: the upper 16 bits of the slot's first word
process_type ==
  /\ cpc = "type"
  /\ c_rest' = TypeField(packets[Slot(c_read_index)].word)
  /\ cpc' = "invalidate"
  /\ UNCHANGED <<workerVars, queueVars, write_index, read_index, doorbell, packets,
                 signals, producerVars, c_read_index, ret, loop_result,
                 handled, fate, submitted>>

\* the slot left as it is before the read index is advanced
process_invalidate_skip ==
  /\ cpc = "invalidate"
  /\ c_rest' = 0
  /\ cpc' = "advance"
  /\ UNCHANGED <<workerVars, queueVars, write_index, read_index, doorbell, packets, signals,
                 producerVars, c_read_index, ret, loop_result, handled, fate,
                 submitted>>

\* packet_store_rel(packet, header(invalid_ty, System, System, false), rest)
process_invalidate ==
  /\ cpc = "invalidate"
  /\ packets' = [packets EXCEPT ![Slot(c_read_index)].word =
       packet_store_rel(
         header(HSA_PACKET_TYPE_INVALID, "System", "System", FALSE), c_rest)]
  /\ c_rest' = 0
  /\ cpc' = "advance"
  /\ UNCHANGED <<workerVars, queueVars, write_index, read_index, doorbell, signals,
                 producerVars, c_read_index, ret, loop_result, handled, fate,
                 submitted>>

\* the loop going on whatever the handler returned
process_advance_continue ==
  /\ cpc = "advance"
  /\ c_read_index' = c_read_index + 1
  /\ read_index' = c_read_index + 1
  /\ cpc' = "wait"
  /\ UNCHANGED <<workerVars, queueVars, write_index, doorbell, packets, signals,
                 producerVars, ret, c_rest, loop_result, handled, fate,
                 submitted>>

\* read_index += 1; store_read_index_screlease(read_index); match ret
process_advance ==
  /\ cpc = "advance"
  /\ c_read_index' = c_read_index + 1
  /\ read_index' = c_read_index + 1
  /\ IF ret = "Continue"
       THEN cpc' = "wait" /\ UNCHANGED loop_result
       ELSE cpc' = "returned" /\ loop_result' = ExitValue(ret)
  /\ UNCHANGED <<workerVars, queueVars, write_index, doorbell, packets, signals,
                 producerVars, ret, c_rest, handled, fate, submitted>>

ProducerStep(p) ==
  \/ dispatch_check(p)
  \/ add_write_index_screlease(p)
  \/ load_read_index_scacquire(p)
  \/ stamp_invalid(p)
  \/ write_body(p)
  \/ publish(p)
  \/ store_doorbell(p)

ConsumerStep(results) ==
  \/ process_start
  \/ process_wait
  \/ \E rv \in results : process_handler(rv)
  \/ process_complete
  \/ process_type
  \/ process_invalidate
  \/ process_advance

\* the model stops calling once `limit` calls have gone on to the ring
Call(p, d, limit) ==
  /\ check(d) = "Ok" => calls < limit
  /\ try_enqueue_kernel_dispatch(p, d)

Next ==
  \/ \E p \in Producers : \E d \in Descriptors : Call(p, d, MaxCalls)
  \/ \E p \in Producers : ProducerStep(p)
  \/ ConsumerStep({"Continue"})

Spec == Init /\ [][Next]_vars

(***************************************************************************)
(* One producer submitting every combination of zero and non-zero          *)
(* dimensions.                                                             *)
(***************************************************************************)
\* with one producer the queue kind makes no difference to any step
SingleInit == Init /\ kind = "Single"

DispatchNext ==
  \/ \E d \in AllDescriptors : Call("p1", d, MaxDispatchCalls)
  \/ ProducerStep("p1")
  \/ ConsumerStep({"Continue"})

SpecDispatch == SingleInit /\ [][DispatchNext]_vars

(***************************************************************************)
(* A multi-producer queue whose handler always returns Continue, with weak *)
(* fairness on the consumer and on every producer that is inside a call.   *)
(***************************************************************************)
LiveInit == Init /\ kind = "Multi"

\* the valid descriptors of Descriptors
LiveDescriptors == { d \in Descriptors : check(d) = "Ok" }

LiveNext ==
  \/ \E p \in Producers : \E d \in LiveDescriptors : Call(p, d, MaxLiveCalls)
  \/ \E p \in Producers : ProducerStep(p)
  \/ ConsumerStep({"Continue"})

LiveSpec ==
  /\ LiveInit
  /\ [][LiveNext]_vars
  /\ WF_vars(ConsumerStep({"Continue"}))
  /\ \A p \in Producers : WF_vars(ProducerStep(p))

(***************************************************************************)
(* A single-producer queue whose handler always returns Continue, with     *)
(* weak fairness on the consumer only: the producer may stop at any point. *)
(***************************************************************************)
LiveSingleNext ==
  \/ \E d \in LiveDescriptors : Call("p1", d, MaxSingleLiveCalls)
  \/ ProducerStep("p1")
  \/ ConsumerStep({"Continue"})

LiveSingleSpec ==
  /\ SingleInit
  /\ [][LiveSingleNext]_vars
  /\ WF_vars(ConsumerStep({"Continue"}))

(***************************************************************************)
(* Barriers whose dependency signals other threads decrement: one producer *)
(* enqueues barriers on signals 1 and 2 and plain dispatches, the consumer *)
(* drains, and a thread per signal subtracts from it until it is zero.     *)
(***************************************************************************)
\* another thread's SignalRef::subtract_screlease(1) on a dependency signal
signal_subtract(s) ==
  /\ signals[s] > 0
  /\ signals' = [signals EXCEPT ![s] = @ - 1]
  /\ UNCHANGED <<workerVars, queueVars, write_index, read_index, doorbell, packets,
                 producerVars, consumerVars, fate, submitted>>

\* the three stores of the barrier body writer
BarrierStep(p) ==
  \/ barrier_stamp_invalid(p)
  \/ barrier_write_body(p)
  \/ barrier_publish(p)

\* the steps of try_enqueue_packet around the body writer
EnqueueStep(p) ==
  \/ add_write_index_screlease(p)
  \/ load_read_index_scacquire(p)
  \/ store_doorbell(p)

CallBarrier(p, b, limit) ==
  /\ calls < limit
  /\ IF b.ty = HSA_PACKET_TYPE_BARRIER_AND
       THEN try_enqueue_barrier_and(p, b.deps, b.completion)
       ELSE try_enqueue_barrier_or(p, b.deps, b.completion)

GateInit == QueueCreated(MaxSignal)

GateNext ==
  \/ \E b \in GateBarriers : CallBarrier("p1", b, MaxGateCalls)
  \/ Call("p1", NoDispatch, MaxGateCalls)
  \/ ProducerStep("p1")
  \/ BarrierStep("p1")
  \/ ConsumerStep({"Continue"})
  \/ \E s \in Signals : signal_subtract(s)

SpecGate == GateInit /\ [][GateNext]_vars

(***************************************************************************)
(* One producer submitting every barrier of AllBarriers.                   *)
(***************************************************************************)
BarrierNext ==
  \/ \E b \in AllBarriers : CallBarrier("p1", b, MaxBarrierCalls)
  \/ EnqueueStep("p1")
  \/ BarrierStep("p1")
  \/ ConsumerStep({"Continue"})

SpecBarrier == SingleInit /\ [][BarrierNext]_vars

(***************************************************************************)
(* One producer and a handler that may return Exit(v); process is called   *)
(* again after it returned.                                                *)
(***************************************************************************)
ExitNext ==
  \/ \E d \in LiveDescriptors : Call("p1", d, MaxExitCalls)
  \/ ProducerStep("p1")
  \/ ConsumerStep(HandlerResults)

SpecExit == Init /\ [][ExitNext]_vars

(***************************************************************************)
(* One producer submitting valid descriptors with a grid of every shape.   *)
(***************************************************************************)
GridNext ==
  \/ \E d \in GridDescriptors : Call("p1", d, MaxGridCalls)
  \/ ProducerStep("p1")
  \/ ConsumerStep({"Continue"})

SpecGrid == SingleInit /\ [][GridNext]_vars

(***************************************************************************)
(* The queue constructors: the handle each returns (its producer kind) and *)
(* the queue type it passes to hsa_queue_create / hsa_soft_queue_create,   *)
(* followed by one producer enqueueing on the queue.                       *)
(***************************************************************************)
Created(name, handle, ty) ==
  [ctor |-> name, kind |-> handle, queue_type |-> ty]

\* Agent::new_kernel_queue -> KernelSingleQueue
new_kernel_queue ==
  Created("new_kernel_queue", "Single", HSA_QUEUE_TYPE_SINGLE)
\* Agent::new_kernel_multi_queue -> KernelMultiQueue
new_kernel_multi_queue ==
  Created("new_kernel_multi_queue", "Multi", HSA_QUEUE_TYPE_MULTI)
\* Agent::new_queue -> Queue<SingleQueueType>
new_queue ==
  Created("new_queue", "Single", HSA_QUEUE_TYPE_SINGLE)
\* Agent::new_multi_queue -> Queue<MultiQueueType>
new_multi_queue ==
  Created("new_multi_queue", "Multi", HSA_QUEUE_TYPE_SINGLE)
\* ApiContext::new_soft(.., queue_type, ..)
new_soft_queue(ty) == Created("new_soft", ty, new_soft(ty))

Constructors ==
  {new_kernel_queue, new_kernel_multi_queue, new_queue, new_multi_queue}
    \cup { new_soft_queue(ty) : ty \in {"Single", "Multi"} }

CreateInit ==
  /\ \E q \in Constructors :
       ctor = q.ctor /\ kind = q.kind /\ queue_type = q.queue_type
  /\ QueueState(MaxCalls)
  /\ WorkerSpawned

CreateNext ==
  \/ \E d \in LiveDescriptors : Call("p1", d, MaxCreateCalls)
  \/ ProducerStep("p1")

SpecCreate == CreateInit /\ [][CreateNext]_vars

(***************************************************************************)
(* WorkerTranslatorData::thread and its environment: the senders of the    *)
(* channel, the owner of the Context and the accelerators.                 *)
(***************************************************************************)
\* tx.send(m) by a CodegenComms that is still alive
send(m) ==
  /\ senders
  /\ sent < MaxMessages
  /\ chan' = Append(chan, m)
  /\ sent' = sent + 1
  /\ UNCHANGED <<ringVars, wpc, context, context_refs, first_msg, recv_msg,
                 accels, accel_alive, senders, cache, wmsg, wresult, replies,
                 compiled, hits>>

\* the last CodegenComms is dropped
drop_senders ==
  /\ senders
  /\ senders' = FALSE
  /\ UNCHANGED <<ringVars, wpc, context, context_refs, first_msg, recv_msg,
                 accels, accel_alive, chan, sent, cache, wmsg, wresult,
                 replies, compiled, hits>>

\* the owner drops its Context
drop_context ==
  /\ "owner" \in context_refs
  /\ context_refs' = context_refs \ {"owner"}
  /\ UNCHANGED <<ringVars, wpc, context, first_msg, recv_msg, accels,
                 accel_alive, chan, senders, sent, cache, wmsg, wresult,
                 replies, compiled, hits>>

\* an accelerator is dropped: its Weak handles no longer upgrade
drop_accel(a) ==
  /\ a \in accel_alive
  /\ accel_alive' = accel_alive \ {a}
  /\ UNCHANGED <<ringVars, wpc, context, context_refs, first_msg, recv_msg,
                 accels, chan, senders, sent, cache, wmsg, wresult, replies,
                 compiled, hits>>

\* return: the thread ends and its closure drops its Context
thread_return ==
  /\ wpc' = "exited"
  /\ context_refs' = context_refs \ {"thread", "worker"}

\* MaybeWeakContext::upgrade succeeds while anyone holds the Context
Upgradable == context_refs # {}

\* let context = match self.context.upgrade() at the top of 'inner
thread_upgrade ==
  /\ wpc = "upgrade"
  /\ IF Upgradable
       THEN /\ context' = "Strong"
            /\ context_refs' = context_refs \cup {"worker"}
            /\ wpc' = "recv"
       ELSE thread_return /\ UNCHANGED context
  /\ UNCHANGED <<ringVars, first_msg, recv_msg, accels, accel_alive, chan,
                 senders, sent, cache, wmsg, wresult, replies, compiled, hits>>

\* first_msg = false and the match on the message: AddAccel breaks out of
\* 'inner and is pushed on self.accels, Codegen goes on to the cache lookup,
\* StartHostQuery is ignored
thread_message(msg) ==
  /\ first_msg' = FALSE
  /\ CASE msg.type = "AddAccel" ->
            /\ accels' = accels \cup {msg.accel}
            /\ wpc' = "upgrade"
            /\ UNCHANGED wmsg
       [] msg.type = "Codegen" ->
            /\ wmsg' = msg
            /\ wpc' = "cached"
            /\ UNCHANGED accels
       [] msg.type = "StartHostQuery" ->
            /\ wpc' = "recv"
            /\ UNCHANGED <<accels, wmsg>>

\* recv_msg.take().unwrap_or_else(|| rx.recv_timeout(to)) and the match on it
thread_recv ==
  /\ wpc = "recv"
  /\ \/ /\ recv_msg # NoMessage
        /\ thread_message(recv_msg)
        /\ recv_msg' = NoMessage
        /\ UNCHANGED <<chan, context_refs>>
     \/ /\ recv_msg = NoMessage
        /\ chan # <<>>
        /\ thread_message(Head(chan))
        /\ chan' = Tail(chan)
        /\ UNCHANGED <<recv_msg, context_refs>>
     \/ /\ recv_msg = NoMessage
        /\ chan = <<>>
        /\ IF senders
             THEN wpc' = "decide" /\ UNCHANGED context_refs
             ELSE thread_return
        /\ UNCHANGED <<first_msg, recv_msg, accels, wmsg, chan>>
  /\ UNCHANGED <<ringVars, context, accel_alive, senders, sent, cache,
                 wresult, replies, compiled, hits>>

\* if let Some(results) = self.cache.get(&desc) { ret.send(Ok(results)) }
codegen_cached ==
  /\ wpc = "cached"
  /\ IF wmsg.desc \in cache
       THEN /\ replies' = [replies EXCEPT ![wmsg.ret] = @ + 1]
            /\ hits' = hits \cup {wmsg.ret}
       ELSE UNCHANGED <<replies, hits>>
  /\ wpc' = "compile"
  /\ UNCHANGED <<ringVars, context, context_refs, first_msg, recv_msg, accels,
                 accel_alive, chan, senders, sent, cache, wmsg, wresult,
                 compiled>>

\* let result = self.codegen_kernel(desc.clone(), ..).map(Arc::new)
codegen_kernel(res) ==
  /\ wpc = "compile"
  /\ compiled' = [compiled EXCEPT ![wmsg.ret] = @ + 1]
  /\ wresult' = res
  /\ wpc' = "reply"
  /\ UNCHANGED <<ringVars, context, context_refs, first_msg, recv_msg, accels,
                 accel_alive, chan, senders, sent, cache, wmsg, replies, hits>>

\* match result { Ok => self.cache.insert(desc, ..) }; ret.send(result)
codegen_reply ==
  /\ wpc = "reply"
  /\ cache' = IF wresult = "Ok" THEN cache \cup {wmsg.desc} ELSE cache
  /\ replies' = [replies EXCEPT ![wmsg.ret] = @ + 1]
  /\ wmsg' = NoMessage
  /\ wresult' = "none"
  /\ wpc' = "recv"
  /\ UNCHANGED <<ringVars, context, context_refs, first_msg, recv_msg, accels,
                 accel_alive, chan, senders, sent, compiled, hits>>

\* self.accels.iter().any(|a| a.upgrade().is_some())
AnyAccelAlive == accels \cap accel_alive # {}

\* the decision after a timeout made without looking at first_msg
thread_decide_any_time ==
  /\ wpc = "decide"
  /\ IF ~(Upgradable /\ AnyAccelAlive)
       THEN thread_return /\ UNCHANGED context
       ELSE /\ context' = "Weak"
            /\ context_refs' = context_refs \ {"worker"}
            /\ wpc' = "block"
  /\ UNCHANGED <<ringVars, first_msg, recv_msg, accels, accel_alive, chan,
                 senders, sent, cache, wmsg, wresult, replies, compiled, hits>>

\* after InternalMessage::Timeout: live = self.context.upgrade().is_some() &&
\* any accel alive; if !live && !first_msg { return }; self.context.downgrade()
thread_decide ==
  /\ wpc = "decide"
  /\ IF ~(Upgradable /\ AnyAccelAlive) /\ ~first_msg
       THEN thread_return /\ UNCHANGED context
       ELSE /\ context' = "Weak"
            /\ context_refs' = context_refs \ {"worker"}
            /\ wpc' = "block"
  /\ UNCHANGED <<ringVars, first_msg, recv_msg, accels, accel_alive, chan,
                 senders, sent, cache, wmsg, wresult, replies, compiled, hits>>

\* match rx.recv() { Err(_) => return, Ok(msg) => recv_msg = Some(Ok(msg)) }
thread_block ==
  /\ wpc = "block"
  /\ IF chan # <<>>
       THEN /\ recv_msg' = Head(chan)
            /\ chan' = Tail(chan)
            /\ wpc' = "upgrade"
            /\ UNCHANGED context_refs
       ELSE /\ ~senders
            /\ thread_return
            /\ UNCHANGED <<recv_msg, chan>>
  /\ UNCHANGED <<ringVars, context, first_msg, accels, accel_alive, senders,
                 sent, cache, wmsg, wresult, replies, compiled, hits>>

Messages ==
  { AddAccel(a) : a \in Accels } \cup {StartHostQuery}
    \cup { Codegen(d, sent + 1) : d \in KernelDescs }

WorkerStep ==
  \/ thread_upgrade
  \/ thread_recv
  \/ codegen_cached
  \/ \E res \in {"Ok", "Err"} : codegen_kernel(res)
  \/ codegen_reply
  \/ thread_decide
  \/ thread_block

WorkerNext ==
  \/ \E m \in Messages : send(m)
  \/ drop_senders
  \/ drop_context
  \/ \E a \in Accels : drop_accel(a)
  \/ WorkerStep

SpecWorker == SingleInit /\ [][WorkerNext]_vars

(***************************************************************************)
(* The header codec on its own: a body writer handed to try_enqueue_packet *)
(* whose publish store is packet_store_rel(packet, header(ty, acq, rel,    *)
(* ordered), setup) for any type, scopes, ordered flag and setup.          *)
(***************************************************************************)
\* the setup values stored (the first word is kept below 2^31)
Setups == {0, 1, 2, 3, 255, 256, Pow2(15) - 1}

HeaderCall(ty, scaquire, screlease, ordered, setup) ==
  [ty |-> ty, scaquire_scope |-> scaquire, screlease_scope |-> screlease,
   ordered |-> ordered, setup |-> setup]

\* packet_store_rel(packet, header(ty, scaquire, screlease, ordered), setup)
store_header(p, c) ==
  /\ pc[p] = "idle"
  /\ arg' = [arg EXCEPT ![p] = c]
  /\ packets' = [packets EXCEPT ![Slot(w[p])].word =
       packet_store_rel(
         header(c.ty, c.scaquire_scope, c.screlease_scope, c.ordered),
         c.setup)]
  /\ wrote' = [wrote EXCEPT ![p] = TRUE]
  /\ UNCHANGED <<workerVars, queueVars, write_index, read_index, doorbell, signals, pc, w,
                 result, calls, consumerVars, fate, submitted>>

CodecNext ==
  \E ty \in PacketTypes, acq \in FenceScopes, rel \in FenceScopes,
     ordered \in BOOLEAN, setup \in Setups :
    store_header("p1", HeaderCall(ty, acq, rel, ordered, setup))

SpecCodec == SingleInit /\ [][CodecNext]_vars

(***************************************************************************)
(* Properties.                                                             *)
(***************************************************************************)
AnyZero(t) == t[1] = 0 \/ t[2] = 0 \/ t[3] = 0
Handled == { handled[k].index : k \in 1 .. Len(handled) }
\* producer p is inside try_enqueue_packet with a reserved index in hand
Holds(p) == pc[p] \in {"load", "stamp", "body", "publish", "doorbell"}
\* producer p took a step (each step of a call moves its position)
Stepped(p) == pc'[p] # pc[p]

\* C1: whenever the consumer invokes the handler for ring index i, the producer
\* that reserved i has already completed its publish store for that slot.
C1_HandlerSeesPublished ==
  \A k \in 1 .. Len(handled) : handled[k].fate \in {"published", "ok"}

\* C2: the handler is invoked at most once per index, in the order of the
\* write indices, and never for an index whose enqueue did not succeed.
C2_Fifo ==
  /\ \A j, k \in 1 .. Len(handled) :
       j < k => handled[j].index < handled[k].index
  /\ \A i \in Handled : fate[i] \notin {"free", "full", "panicked"}

\* C3: while nothing has been drained from the initially empty queue, the
\* attempts that reserved the first packet_count indices pass the Full check and
\* every later attempt returns Full.
C3_FullAtCapacity ==
  read_index = 0 =>
    \A i \in Indices :
      fate[i] \notin {"free", "reserved"} =>
        (fate[i] = "full" <=> i >= packet_count)

C3_Witness ==
  /\ read_index = 0
  /\ packet_count = 2
  /\ \A i \in 0 .. (packet_count - 1) : fate[i] = "ok"
  /\ fate[packet_count] = "full"

\* C4: on a single-producer queue, after packet_count accepted enqueues and one
\* attempt that returned Full, the next attempt, made once the consumer has
\* drained one packet (read index 1), does not return Full.
C4_RecoveryAfterFull ==
  [][\A p \in Producers :
       ( /\ kind = "Single"
         /\ \A i \in 0 .. (packet_count - 1) : fate[i] = "ok"
         /\ fate[packet_count] = "full"
         /\ pc[p] = "load"
         /\ w[p] = packet_count + 1
         /\ read_index = 1
         /\ Stepped(p) )
       => pc'[p] = "stamp"]_vars

\* C5: a try_enqueue_kernel_dispatch call that fails validation leaves the write
\* index, the read index, the doorbell and every ring slot as they were.
C5_ValidationFailureNoEffect ==
  [][\A p \in Producers :
       ( \/ pc[p] = "idle" /\ pc'[p] = "check" /\ check(arg'[p]) # "Ok"
         \/ pc[p] = "check" /\ pc'[p] = "idle" )
       => /\ result'[p] \in {"none", "WorkgroupDimSize", "GridDimSize"}
          /\ UNCHANGED <<write_index, read_index, doorbell, packets>>]_vars

C5_Witness ==
  \E p \in Producers :
    /\ pc[p] = "idle"
    /\ result[p] = "GridDimSize"
    /\ write_index - read_index = 1

\* C6: the call returns WorkgroupDimSize exactly when some workgroup dimension
\* is 0, GridDimSize exactly when no workgroup dimension and some grid dimension
\* is 0, and otherwise goes on to the ring enqueue, which returns Ok or Full.
C6_ValidationOutcome ==
  [][\A p \in Producers :
       /\ (pc[p] = "check" /\ Stepped(p)) =>
            LET wg0 == AnyZero(arg[p].workgroup_size)
                grid0 == AnyZero(arg[p].grid_size)
            IN /\ (pc'[p] = "idle" /\ result'[p] = "WorkgroupDimSize") <=> wg0
               /\ (pc'[p] = "idle" /\ result'[p] = "GridDimSize")
                    <=> (~wg0 /\ grid0)
               /\ (pc'[p] = "reserve" /\ result'[p] = "none")
                    <=> (~wg0 /\ ~grid0)
       /\ (pc[p] \notin {"idle", "check"} /\ pc'[p] = "idle") =>
            result'[p] \in {"Ok", "Full"}]_vars

C6_Witness ==
  \E p \in Producers :
    /\ pc[p] = "idle"
    /\ result[p] = "WorkgroupDimSize"
    /\ AnyZero(arg[p].workgroup_size)
    /\ AnyZero(arg[p].grid_size)

\* C7: an enqueue attempt that returns Full has stored nothing to any ring slot
\* and nothing to the doorbell, and leaves the read index as it was.
C7_FullWritesNothing ==
  [][\A p \in Producers :
       (Stepped(p) /\ pc'[p] = "idle" /\ result'[p] = "Full")
       => /\ ~wrote[p]
          /\ ~wrote'[p]
          /\ UNCHANGED <<packets, doorbell, read_index>>]_vars

C7_Witness ==
  \E p \in Producers :
    /\ pc[p] = "idle"
    /\ result[p] = "Full"
    /\ doorbell >= 0

\* C8: the write index moves only by the one fetch-add of each call, so an
\* attempt that returns Full leaves it one greater (nothing is given back); the
\* index it reserved stays abandoned: no producer holds it, stamps it or
\* publishes it afterwards.
C8_FullIndexAbandoned ==
  [][/\ write_index' = write_index
          + Cardinality({p \in Producers : pc[p] = "reserve" /\ Stepped(p)})
     /\ \A i \in Indices :
          fate[i] = "full" =>
            /\ fate'[i] = "full"
            /\ \A p \in Producers : Holds(p)' => w'[p] # i]_vars

C8_Witness ==
  \E i \in Indices :
    /\ fate[i] = "full"
    /\ write_index > i + 1
    /\ \E j \in Indices : j > i /\ fate[j] = "ok"

\* C9: on a multi-producer queue with a handler that always returns Continue,
\* every packet whose try_enqueue returned Ok is eventually passed to the handler.
C9_EveryOkHandled ==
  \A i \in Indices : (fate[i] = "ok") ~> (i \in Handled)

\* C10: on a single-producer queue every doorbell store of a successful enqueue
\* stores a value above the doorbell's value before the store.
C10_DoorbellIncreasing ==
  [][\A p \in Producers :
       (kind = "Single" /\ pc[p] = "doorbell" /\ Stepped(p))
       => doorbell' > doorbell]_vars

C10_Witness ==
  /\ kind = "Single"
  /\ doorbell >= 2
  /\ \E i \in Indices : i < doorbell /\ fate[i] = "ok"

\* the consumer invokes the handler
HandlerStep == cpc = "handler" /\ cpc' = "complete"
\* index i was published before the state at hand
Published(i) == fate[i] \in {"published", "ok"}

\* C11: on a multi-producer queue, calls that are inside try_enqueue at the same
\* time hold pairwise distinct write indices, no call holds an index another
\* call finished with, and the write index is the number of calls that have done
\* the fetch-add.
C11_DistinctWriteIndices ==
  kind = "Multi" =>
    /\ \A p, q \in Producers :
         (p # q /\ Holds(p) /\ Holds(q)) => w[p] # w[q]
    /\ \A p \in Producers :
         Holds(p) => fate[w[p]] \in {"reserved", "passed", "published"}
    /\ write_index = Cardinality({i \in Indices : fate[i] # "free"})

C11_Witness ==
  /\ kind = "Multi"
  /\ \A p \in Producers : Holds(p)
  /\ \E i \in Indices : fate[i] = "full"

ZeroOrNull(s) == s = NullSignal \/ signals[s] <= 0
\* the dependency condition of barrier call b on the current signal values
BarrierReady(b) ==
  LET deps == TakeDeps(b.deps)
  IN IF b.ty = HSA_PACKET_TYPE_BARRIER_AND
       THEN \A k \in 1 .. MaxDeps : ZeroOrNull(deps[k])
       ELSE \E k \in 1 .. MaxDeps :
              deps[k] # NullSignal /\ signals[deps[k]] <= 0

\* C12: the handler is not invoked for a published BarrierAnd packet with
\* dependencies [s1, s2] before both s1 and s2 are zero.
C12_BarrierAndGated ==
  [][( /\ HandlerStep
       /\ Published(c_read_index)
       /\ IsBarrier(submitted[c_read_index])
       /\ submitted[c_read_index].ty = HSA_PACKET_TYPE_BARRIER_AND )
     => BarrierReady(submitted[c_read_index])]_vars

\* C13: the handler is not invoked for a packet enqueued after a barrier (And or
\* Or) before that barrier's dependency condition holds.
C13_OrderedBehindBarrier ==
  [][HandlerStep =>
       \A j \in Indices :
         ( /\ j < c_read_index
           /\ fate[j] = "ok"
           /\ Published(c_read_index)
           /\ IsBarrier(submitted[j]) )
         => BarrierReady(submitted[j])]_vars

\* C14: when the handler is invoked for a published kernel dispatch, the slot
\* holds the dimensions, segment sizes, kernel object and kernarg pointer of the
\* submitted descriptor, and its completion signal (null when none was given).
C14_RoundTrip ==
  [][(HandlerStep /\ Published(c_read_index)) =>
       LET d == submitted[c_read_index]
           pk == packets[Slot(c_read_index)]
       IN /\ pk.body.workgroup_size = d.workgroup_size
          /\ pk.body.grid_size = d.grid_size
          /\ pk.body.private_segment_size = d.private_segment_size
          /\ pk.body.group_segment_size = d.group_segment_size
          /\ pk.body.kernel_object = d.kernel_object
          /\ pk.body.kernarg_address = d.kernel_args
          /\ pk.completion_signal = d.completion_signal]_vars

C14_Witness ==
  \E k \in 1 .. Len(handled) :
    LET i == handled[k].index
    IN /\ handled[k].fate \in {"published", "ok"}
       /\ i >= packet_count
       /\ submitted[i].completion_signal = NullSignal
       /\ submitted[i - packet_count].completion_signal # NullSignal
       /\ fate[i - packet_count] = "ok"

\* C15: the consumer's invalidating store makes the slot's header type Invalid
\* and leaves the upper 16 bits of the first word as they were; from then on the
\* header type stays Invalid until a producer's publish store into that slot.
C15_Invalidation ==
  [][/\ (cpc = "invalidate" /\ cpc' = "advance") =>
          LET s == Slot(c_read_index)
          IN /\ PacketType(packets'[s].word) = HSA_PACKET_TYPE_INVALID
             /\ TypeField(packets'[s].word) = TypeField(packets[s].word)
     /\ \A s \in DOMAIN packets :
          ( /\ PacketType(packets[s].word) = HSA_PACKET_TYPE_INVALID
            /\ PacketType(packets'[s].word) # HSA_PACKET_TYPE_INVALID )
          => \E p \in Producers :
               pc[p] = "publish" /\ pc'[p] = "doorbell" /\ Slot(w[p]) = s]_vars

\* position of a producer inside its call, in program order
Rank(l) ==
  CASE l = "idle" -> 0 [] l = "check" -> 1 [] l = "reserve" -> 2
    [] l = "load" -> 3 [] l = "stamp" -> 4 [] l = "body" -> 5
    [] l = "publish" -> 6 [] l = "doorbell" -> 7 [] l = "panicked" -> 8

\* C16: a producer inside a call always has a step of its own to take, whatever
\* the consumer and the other producers do; every step moves it forward in the
\* call, and the call ends by returning Ok or an error.
C16_ProducerNeverBlocks ==
  [][\A p \in Producers :
       /\ pc[p] \notin {"idle", "panicked"} => ENABLED ProducerStep(p)
       /\ (Stepped(p) /\ pc[p] # "idle") =>
            \/ pc'[p] \in {"reserve", "load", "stamp", "body", "publish",
                           "doorbell"} /\ Rank(pc'[p]) > Rank(pc[p])
            \/ /\ pc'[p] = "idle"
               /\ result'[p] \in {"Ok", "Full", "WorkgroupDimSize",
                                  "GridDimSize"}]_vars

\* C17: process returns exactly at the end of an iteration whose handler call
\* returned Exit(v), it returns v, and until it is called again the handler is
\* not invoked; after a Continue the loop goes back to the doorbell wait.
C17_ExitDecidesReturn ==
  [][/\ (cpc # "returned" /\ cpc' = "returned") =>
          /\ cpc = "advance"
          /\ ret # "Continue"
          /\ loop_result' = ExitValue(ret)
     /\ (cpc = "advance" /\ cpc' # cpc) =>
          /\ cpc' = "returned" <=> ret # "Continue"
          /\ cpc' = "wait" <=> ret = "Continue"
     /\ cpc \in {"complete", "type", "invalidate", "advance"} => ret' = ret
     /\ handled' # handled => cpc = "handler"
     /\ (cpc = "returned" /\ cpc' = "returned") => handled' = handled]_vars

C17_Witness ==
  /\ cpc = "returned"
  /\ loop_result = "b"
  /\ Len(handled) >= 2
  /\ read_index = Len(handled)

\* C18: after each handler invocation, and before the slot is invalidated and
\* the read index advanced, the consumer subtracts exactly 1 from the slot's
\* completion signal if the field is not the null signal, and changes no signal
\* if it is; no other step of the loop changes a signal.
C18_CompletionNotified ==
  [][/\ (cpc = "handler" /\ cpc' # cpc) => cpc' = "complete"
     /\ (cpc = "complete" /\ cpc' # cpc) =>
          LET cs == packets[Slot(c_read_index)].completion_signal
          IN /\ cpc' = "type"
             /\ UNCHANGED <<packets, read_index>>
             /\ signals' = IF cs # NullSignal
                             THEN [signals EXCEPT ![cs] = signals[cs] - 1]
                             ELSE signals
     /\ cpc # "complete" => signals' = signals
     /\ read_index' # read_index => cpc = "advance"]_vars

C18_Witness ==
  /\ Len(handled) >= 2
  /\ signals[1] = MaxCalls - 1
  /\ signals[2] = MaxCalls
  /\ cpc = "wait"

\* C19: the body writer of a barrier call given n signals writes all five
\* dependency fields, field k holding the k-th signal for k <= min(n, 5) and the
\* null signal otherwise, takes the first min(n, 5) signals from the iterator and
\* leaves the rest in it, writes the completion signal if one was given, and
\* touches no other slot; no other step of the call takes from the iterator.
C19_BarrierBody ==
  [][\A p \in Producers :
       /\ (pc[p] = "body" /\ pc'[p] = "publish" /\ IsBarrier(arg[p])) =>
            LET b == submitted[w[p]]
                n == Len(b.deps)
                s == Slot(w[p])
            IN /\ \A k \in 1 .. MaxDeps :
                    packets'[s].dep_signal[k] =
                      IF k <= n THEN b.deps[k] ELSE NullSignal
               /\ Len(arg'[p].deps) = IF n > MaxDeps THEN n - MaxDeps ELSE 0
               /\ \A j \in 1 .. Len(arg'[p].deps) :
                    arg'[p].deps[j] = b.deps[j + MaxDeps]
               /\ b.completion # NullSignal =>
                    packets'[s].completion_signal = b.completion
               /\ \A t \in DOMAIN packets \ {s} : packets'[t] = packets[t]
               /\ write_index' = write_index
       /\ (Stepped(p) /\ pc[p] \notin {"idle", "body"}) => arg'[p] = arg[p]]_vars

C19_Witness ==
  \E p \in Producers :
    /\ pc[p] = "idle"
    /\ result[p] = "Ok"
    /\ IsBarrier(arg[p])
    /\ Len(arg[p].deps) = 1
    /\ arg[p].completion # NullSignal
    /\ \E s \in DOMAIN packets :
         /\ packets[s].dep_signal = <<1, 2, 1, 2, 1>>
         /\ packets[s].completion_signal = arg[p].completion

\* C20: the header a barrier call publishes has the call's type (BarrierAnd or
\* BarrierOr), acquire and release fence scope None, setup field 0, and the
\* barrier bit set exactly when a completion signal was supplied.
C20_BarrierHeader ==
  [][\A p \in Producers :
       (pc[p] = "publish" /\ pc'[p] = "doorbell" /\ IsBarrier(arg[p])) =>
         LET word == packets'[Slot(w[p])].word
         IN /\ PacketType(word) = arg[p].ty
            /\ HeaderField(word, HSA_PACKET_HEADER_SCACQUIRE_FENCE_SCOPE,
                 HSA_PACKET_HEADER_WIDTH_SCACQUIRE_FENCE_SCOPE)
                 = HSA_FENCE_SCOPE_NONE
            /\ HeaderField(word, HSA_PACKET_HEADER_SCRELEASE_FENCE_SCOPE,
                 HSA_PACKET_HEADER_WIDTH_SCRELEASE_FENCE_SCOPE)
                 = HSA_FENCE_SCOPE_NONE
            /\ TypeField(word) = 0
            /\ HeaderField(word, HSA_PACKET_HEADER_BARRIER,
                 HSA_PACKET_HEADER_WIDTH_BARRIER) = 1
                 <=> arg[p].completion # NullSignal]_vars

\* the encoding of a fence scope: None = 0, Agent = 1, System = 2
ScopeCode(scope) ==
  CASE scope = "None" -> 0 [] scope = "Agent" -> 1 [] scope = "System" -> 2

\* C21: the type, acquire-scope, release-scope and ordered fields of
\* header(type, acq, rel, ordered) decode back to the inputs, the scopes being
\* encoded as None = 0, Agent = 1, System = 2, and the stored first word is the
\* header in its low 16 bits and the setup in its high 16 bits.
C21_HeaderRoundTrip ==
  \A p \in Producers :
    "setup" \in DOMAIN arg[p] =>
      LET c == arg[p]
          word == packets[Slot(w[p])].word
          hdr == header(c.ty, c.scaquire_scope, c.screlease_scope, c.ordered)
      IN /\ hdr \in 0 .. (U16 - 1)
         /\ HeaderOf(word) = hdr
         /\ TypeField(word) = c.setup
         /\ word = hdr + c.setup * U16
         /\ HeaderField(word, HSA_PACKET_HEADER_TYPE,
              HSA_PACKET_HEADER_WIDTH_TYPE) = c.ty
         /\ HeaderField(word, HSA_PACKET_HEADER_SCACQUIRE_FENCE_SCOPE,
              HSA_PACKET_HEADER_WIDTH_SCACQUIRE_FENCE_SCOPE)
              = ScopeCode(c.scaquire_scope)
         /\ HeaderField(word, HSA_PACKET_HEADER_SCRELEASE_FENCE_SCOPE,
              HSA_PACKET_HEADER_WIDTH_SCRELEASE_FENCE_SCOPE)
              = ScopeCode(c.screlease_scope)
         /\ HeaderField(word, HSA_PACKET_HEADER_BARRIER,
              HSA_PACKET_HEADER_WIDTH_BARRIER) = (IF c.ordered THEN 1 ELSE 0)

C21_Witness ==
  /\ arg["p1"] = HeaderCall(HSA_PACKET_TYPE_BARRIER_OR, "System", "Agent", TRUE,
                            Pow2(15) - 1)
  /\ TypeField(packets[0].word) = Pow2(15) - 1
  /\ PacketType(packets[0].word) = HSA_PACKET_TYPE_BARRIER_OR

\* the position (x = 1, y = 2, z = 3) of the last dimension that is not 1, and
\* 0 when there is none
LastNonUnit(grid) ==
  IF grid[3] # 1 THEN 3 ELSE IF grid[2] # 1 THEN 2 ELSE IF grid[1] # 1 THEN 1
  ELSE 0

\* producer p takes the publish step of a kernel-dispatch call
PublishesDispatch(p) ==
  pc[p] = "publish" /\ pc'[p] = "doorbell" /\ ~IsBarrier(arg[p])

\* C22: for every valid grid the value in the published setup field is in 0..3;
\* it is 0 when every dimension is 1 and otherwise the position of the last
\* dimension that is not 1 (1 for x, 2 for y, 3 for z).
C22_GridDimensions ==
  [][\A p \in Producers :
       PublishesDispatch(p) =>
         LET setup == TypeField(packets'[Slot(w[p])].word)
         IN setup \in 0 .. 3 /\ setup = LastNonUnit(arg[p].grid_size)]_vars

C22_Witness ==
  /\ pc["p1"] = "doorbell"
  /\ arg["p1"].grid_size = <<1, 2, 1>>
  /\ TypeField(packets[Slot(w["p1"])].word) = 2

\* C22 as stated: the value in the published setup field is the number of grid
\* dimensions that are not 1.
C22_CountOfNonUnit ==
  [][\A p \in Producers :
       PublishesDispatch(p) =>
         LET setup == TypeField(packets'[Slot(w[p])].word)
         IN setup \in 0 .. 3 /\ setup = grid_dims_count(arg[p].grid_size)]_vars

\* the packet type a call publishes
CallType(a) == IF IsBarrier(a) THEN a.ty ELSE HSA_PACKET_TYPE_KERNEL_DISPATCH

\* C23: a barrier or kernel-dispatch call that passed the Full check stores, in
\* this order, the Invalid header (setup 0) into its slot, the body fields, and
\* the publish store of the real header, which is the only store of the call
\* that makes the header valid; the doorbell is stored only after the publish
\* store, by that call, with exactly the write index the call reserved.
C23_WriteOrder ==
  [][/\ \A p \in Producers :
          LET s == Slot(w[p])
          IN /\ (pc[p] = "reserve" /\ Stepped(p)) =>
                  /\ w'[p] = write_index
                  /\ UNCHANGED <<packets, doorbell>>
             /\ (pc[p] = "load" /\ Stepped(p)) =>
                  /\ UNCHANGED <<packets, doorbell>>
                  /\ pc'[p] = "stamp" => w'[p] = w[p]
             /\ (pc[p] = "stamp" /\ Stepped(p)) =>
                  /\ pc'[p] = "body"
                  /\ PacketType(packets'[s].word) = HSA_PACKET_TYPE_INVALID
                  /\ TypeField(packets'[s].word) = 0
                  /\ packets' = [packets EXCEPT ![s].word = packets'[s].word]
                  /\ UNCHANGED <<doorbell, w>>
             /\ (pc[p] = "body" /\ Stepped(p)) =>
                  /\ pc'[p] = "publish"
                  /\ packets'[s].word = packets[s].word
                  /\ UNCHANGED <<doorbell, w>>
             /\ (pc[p] = "publish" /\ Stepped(p)) =>
                  /\ pc'[p] = "doorbell"
                  /\ PacketType(packets'[s].word) = CallType(arg[p])
                  /\ packets' = [packets EXCEPT ![s].word = packets'[s].word]
                  /\ UNCHANGED <<doorbell, w>>
             /\ (pc[p] = "doorbell" /\ Stepped(p)) =>
                  /\ pc'[p] = "idle"
                  /\ result'[p] = "Ok"
                  /\ doorbell' = w[p]
                  /\ UNCHANGED packets
     /\ doorbell' # doorbell =>
          \E p \in Producers : pc[p] = "doorbell" /\ Stepped(p)]_vars

C23_Witness ==
  /\ pc["p1"] = "idle"
  /\ result["p1"] = "Ok"
  /\ IsBarrier(arg["p1"])
  /\ ~IsBarrier(submitted[0])
  /\ fate[0] = "ok"
  /\ fate[1] = "ok"
  /\ doorbell = 1

\* producer p passed the Full check and has not yet made its publish store
Filling(p) == pc[p] \in {"stamp", "body", "publish"}

\* C24: from the moment a producer's Full check has passed for write index w
\* until its publish store, the header type of slot w mod capacity is Invalid.
C24_InvalidWhileFilled ==
  \A p \in Producers :
    Filling(p) =>
      PacketType(packets[Slot(w[p])].word) = HSA_PACKET_TYPE_INVALID

\* the consumer took a step
ConsumerStepped == cpc' # cpc

\* C25: in each iteration the consumer invokes the handler on the slot of the
\* read index, then subtracts from the completion signal, then stores the
\* Invalid header into that slot, then stores the read index; the read index
\* grows by exactly 1 per handler invocation, only in that last step, when the
\* slot has been invalidated.
C25_ConsumerOrder ==
  [][/\ (cpc = "handler" /\ ConsumerStepped) =>
          /\ cpc' = "complete"
          /\ handled' = Append(handled, handled'[Len(handled')])
          /\ handled'[Len(handled')].index = read_index
          /\ UNCHANGED <<signals, packets, read_index>>
     /\ (cpc = "complete" /\ ConsumerStepped) =>
          /\ cpc' = "type"
          /\ UNCHANGED <<packets, read_index, handled>>
     /\ (cpc = "type" /\ ConsumerStepped) =>
          /\ cpc' = "invalidate"
          /\ UNCHANGED <<signals, packets, read_index, handled>>
     /\ (cpc = "invalidate" /\ ConsumerStepped) =>
          /\ cpc' = "advance"
          /\ PacketType(packets'[Slot(read_index)].word)
               = HSA_PACKET_TYPE_INVALID
          /\ UNCHANGED <<signals, read_index, handled>>
     /\ (cpc = "advance" /\ ConsumerStepped) =>
          /\ read_index' = read_index + 1
          /\ read_index' = Len(handled)
          /\ UNCHANGED <<signals, packets, handled>>
     /\ read_index' # read_index => cpc = "advance"]_vars

C25_Witness ==
  /\ read_index = MaxExitCalls
  /\ Len(handled) = MaxExitCalls
  /\ cpc = "returned"
  /\ signals[1] = MaxCalls - MaxExitCalls
  /\ \A s \in DOMAIN packets :
       PacketType(packets[s].word) = HSA_PACKET_TYPE_INVALID

\* the handler was invoked on index i after the index was published
HandledPublished(i) ==
  \E k \in 1 .. Len(handled) :
    handled[k].index = i /\ handled[k].fate \in {"published", "ok"}

\* C26: on a single-producer queue whose handler always returns Continue, with
\* weak fairness on the consumer, every packet whose enqueue returned Ok is
\* eventually passed to the handler, also when attempts in between returned
\* Full.
C26_SingleProducerLive ==
  \A i \in Indices : (fate[i] = "ok") ~> HandledPublished(i)

C26_Witness ==
  \E i, j \in Indices :
    /\ i < j
    /\ fate[i] = "full"
    /\ fate[j] = "ok"
    /\ HandledPublished(j)

\* C27: on a multi-producer queue no two calls that have passed the Full check
\* and not yet made their publish store target the same slot.
C27_NoSharedSlot ==
  kind = "Multi" =>
    \A p, q \in Producers :
      (p # q /\ Filling(p) /\ Filling(q)) => Slot(w[p]) # Slot(w[q])

\* C28: a published header stays in its slot until the handler invocation for
\* its index has returned: no step, the consumer's invalidating store included,
\* changes the first word of the slot of an index that is published and that
\* the handler has not yet been invoked on.
C28_NoLostPacket ==
  [][\A i \in Indices :
       (Published(i) /\ i \notin Handled) =>
         packets'[Slot(i)].word = packets[Slot(i)].word]_vars

\* the completion signal a call was made with (NullSignal for none)
CompletionOf(a) == IF IsBarrier(a) THEN a.completion ELSE a.completion_signal

\* the handler invocations whose completion subtract is behind them
Retired ==
  1 .. (IF cpc = "complete" THEN Len(handled) - 1 ELSE Len(handled))

\* C29: the total subtracted from a signal equals the number of handled packets
\* that were enqueued with it as their completion signal; a barrier enqueued
\* without one, into a slot whose previous occupant carried one, causes no
\* further decrement.
C29_CompletionOncePerEnqueue ==
  \A s \in Signals :
    MaxCalls - signals[s] =
      Cardinality({ k \in Retired :
                      /\ Published(handled[k].index)
                      /\ CompletionOf(submitted[handled[k].index]) = s })

\* C30: in every reachable state the write index is at most capacity ahead of
\* the read index.
C30_OccupancyBound == write_index - read_index <= packet_count

\* C31: the read index never exceeds the write index, and the handler is never
\* invoked for an index that no producer has reserved.
C31_ConsumerNotAhead ==
  /\ read_index <= write_index
  /\ c_read_index <= write_index
  /\ cpc \in {"handler", "complete", "type", "invalidate", "advance"} =>
       c_read_index < write_index
  /\ \A k \in 1 .. Len(handled) :
       handled[k].fate # "free" /\ handled[k].index < write_index

C31_Witness ==
  /\ read_index = write_index
  /\ write_index = MaxCalls
  /\ Len(handled) = MaxCalls
  /\ \E i \in Indices : fate[i] = "full"

\* C32: whenever a call evaluates write_index - read_index, the index it
\* reserved is at least the read index it has just loaded.
C32_NoUnderflow ==
  [][\A p \in Producers :
       (pc[p] = "load" /\ Stepped(p)) => w[p] >= read_index]_vars

\* the handler returned Exit for the packet the consumer is retiring
Exiting ==
  cpc \in {"complete", "type", "invalidate", "advance"} /\ ret # "Continue"

\* C33: when the handler returns Exit for the packet at index r, the consumer
\* still subtracts from that packet's completion signal, stores the Invalid
\* header into its slot and stores read index r + 1 before process returns.
C33_ExitRetiresFirst ==
  [][/\ (cpc = "handler" /\ ConsumerStepped) => cpc' = "complete"
     /\ (Exiting /\ ConsumerStepped) =>
          LET r == handled[Len(handled)].index
              cs == packets[Slot(r)].completion_signal
          IN /\ r = read_index
             /\ ret' = ret
             /\ cpc = "complete" =>
                  /\ cpc' = "type"
                  /\ cs # NullSignal =>
                       signals' = [signals EXCEPT ![cs] = signals[cs] - 1]
             /\ cpc = "type" => cpc' = "invalidate"
             /\ cpc = "invalidate" =>
                  /\ cpc' = "advance"
                  /\ PacketType(packets'[Slot(r)].word)
                       = HSA_PACKET_TYPE_INVALID
             /\ cpc = "advance" =>
                  /\ cpc' = "returned"
                  /\ read_index' = r + 1
                  /\ PacketType(packets'[Slot(r)].word)
                       = HSA_PACKET_TYPE_INVALID
                  /\ loop_result' = ExitValue(ret)
     /\ (cpc # "returned" /\ cpc' = "returned") => cpc = "advance"]_vars

C33_Witness ==
  /\ cpc = "returned"
  /\ loop_result = "a"
  /\ Len(handled) = 1
  /\ read_index = 1
  /\ signals[1] = MaxCalls - 1
  /\ PacketType(packets[0].word) = HSA_PACKET_TYPE_INVALID

\* C34: a call of process after an Exit starts with the index right after the
\* last one handled by the previous call; over any number of calls the handler
\* is invoked on the indices 0, 1, 2, ... in turn, none twice and none skipped.
C34_ResumeAfterExit ==
  [][/\ (cpc = "returned" /\ ConsumerStepped) =>
          /\ cpc' = "wait"
          /\ c_read_index' = Len(handled)
          /\ Len(handled) > 0 =>
               c_read_index' = handled[Len(handled)].index + 1
     /\ \A k \in 1 .. Len(handled') : handled'[k].index = k - 1]_vars

C34_Witness ==
  /\ loop_result = "a"
  /\ cpc = "complete"
  /\ ret = "Continue"
  /\ Len(handled) = MaxExitCalls
  /\ \A k \in 1 .. Len(handled) : handled[k].index = k - 1

\* C35: a barrier call that returns Full has taken nothing from the caller's
\* dependency sequence and has stored no dependency, completion or header
\* field: from the call to its return the sequence and the ring are as the call
\* found them.
C35_FullBarrierTakesNothing ==
  [][\A p \in Producers :
       (IsBarrier(arg[p]) /\ Stepped(p) /\ pc[p] \in {"reserve", "load"}) =>
         /\ arg'[p] = arg[p]
         /\ packets' = packets
         /\ ~wrote'[p]
         /\ pc[p] = "load" => arg[p] = submitted[w[p]]
         /\ result'[p] = "Full" =>
              /\ pc'[p] = "idle"
              /\ arg'[p].deps = submitted[w[p]].deps]_vars

C35_Witness ==
  /\ pc["p1"] = "idle"
  /\ result["p1"] = "Full"
  /\ IsBarrier(arg["p1"])
  /\ Len(arg["p1"].deps) = MaxDeps + 1
  /\ fate[0] = "ok"
  /\ fate[1] = "full"
  /\ packets[0].dep_signal = EmptyDeps

\* C36: every constructor creates the underlying queue with the queue type
\* that matches the producer kind of the handle it returns.
C36_KindMatchesHandle ==
  /\ kind = "Single" <=> queue_type = HSA_QUEUE_TYPE_SINGLE
  /\ kind = "Multi" <=> queue_type = HSA_QUEUE_TYPE_MULTI

\* the worker takes the step that follows a receive timeout
DecidesOnTimeout == wpc = "decide" /\ wpc' # "decide"

\* the worker leaves its blocking rx.recv()
LeavesRecv == wpc = "block" /\ wpc' # "block"

\* C37: on a receive timeout the worker exits exactly when a message has been
\* received before and the context cannot be upgraded or no registered
\* accelerator is alive; otherwise it downgrades its context and blocks, and it
\* leaves the blocking receive only with the next message or, once all senders
\* are gone, by exiting.
C37_PollAndDecide ==
  [][ /\ DecidesOnTimeout =>
           /\ wpc' = "exited" <=>
                (~first_msg /\ (~Upgradable \/ ~AnyAccelAlive))
           /\ first_msg => wpc' # "exited"
           /\ wpc' # "exited" =>
                /\ wpc' = "block"
                /\ context' = "Weak"
                /\ "worker" \notin context_refs'
      /\ LeavesRecv =>
           \/ /\ chan # <<>>
              /\ recv_msg' = Head(chan)
              /\ chan' = Tail(chan)
              /\ wpc' = "upgrade"
           \/ /\ chan = <<>>
              /\ ~senders
              /\ wpc' = "exited"
    ]_vars

C37_Witness ==
  /\ wpc = "exited"
  /\ senders
  /\ ~first_msg
  /\ accels # {}
  /\ ~AnyAccelAlive

\* C38: every Codegen message gets exactly one result on its reply channel, a
\* request whose descriptor is in the cache is not compiled again, and only a
\* successful result is inserted into the cache.
C38_OneReplyPerRequest ==
  [][ /\ \A r \in Requests :
           /\ replies'[r] <= 1
           /\ r \in hits' => compiled'[r] = 0
           /\ (wmsg.ret = r /\ wmsg'.ret # r) => replies'[r] = 1
      /\ cache' # cache => wresult = "Ok" /\ cache' = cache \cup {wmsg.desc}
    ]_vars

====
